---- MODULE Spec2Model ----
(***************************************************************************)
(* Entity Nexus frontend: the Home page (graph search, golden-record       *)
(* panel with its lineage tooltip, graph view), the dictionary explorer,   *)
(* the chat panel and the visual encoders.                                 *)
(*                                                                         *)
(* Three history variables record what the last step did: viewEvent names  *)
(* the GraphViz handler or effect that ran last, sent lists the requests   *)
(* the last handler put on the wire, chatLast tells how the chat request   *)
(* settled last did.                                                       *)
(*                                                                         *)
(* JavaScript values are modelled with one shape per type:                 *)
(*   - an optional value (a property that may be missing/undefined) is a   *)
(*     sequence of length 0 (absent) or 1 (present);                       *)
(*   - rendered text is a record [kind, n, s]: a number followed by '%',   *)
(*     a bare number, or a string;                                         *)
(*   - an edge id is the sequence of the string pieces it is made of, so   *)
(*     that an id built from a template (`xy-edge__${s}-${t}`) is a value. *)
(***************************************************************************)
EXTENDS Integers, Sequences, FiniteSets, TLC

VARIABLES
    \* ---- visual encoder, applied to one edge / one node (pure functions)
    encEdge,        \* the edge handed to processEdges
    encEdgeOut,     \* <<>> before processEdges ran, <<visual>> after
    encNode,        \* the node handed to processNodes
    encMode,        \* isRiskMode handed to processNodes
    encNodeOut,     \* <<>> before processNodes ran, <<visual>> after
    \* ---- dictionary row resolver, applied to one raw row (pure function)
    rawRecord,      \* raw dictionary row: alias key -> optional string
    resolved,       \* <<>> before the row was normalised, <<item>> after
    \* ---- ExplorerPage
    modules,        \* useState<Module[]>([]): sequence of module ids
    modulesReq,     \* the module-list request: "pending", "done" or "failed"
    selectedModule, \* useState<Module | null>(null): optional module id
    dictionary,     \* useState<DictionaryItem[]>([])
    sample,         \* useState<any>(null): optional sample document
    expLoading,     \* useState(false)
    expLoads,       \* the dictionary+sample loads issued, oldest first
    expUnhandled,   \* an error escaped every handler (unhandled rejection)
    \* ---- Home page
    entityId,       \* useState('804735132')
    nodes,          \* useState<Node[]>([]): the graph snapshot's nodes
    edges,          \* useState<Edge[]>([]): the graph snapshot's edges
    loading,        \* useState(false)
    error,          \* useState('')
    graphPending,   \* entity ids of the graph requests in flight, oldest first
    graphLast,      \* the graph request issued last: its id, the id of the
                    \* request before it, and its answer once it has come
    \* ---- EntityDetails
    data,           \* useState<EntityData | null>(null)
    detailsLoading, \* useState(false)
    detailsError,   \* useState('')
    detailPending,  \* entity ids of the golden-record requests in flight, oldest first
    detailLast,     \* the golden-record request issued last: its id and its status
    \* ---- GraphViz
    riskMode,       \* useState(false)
    rfNodes,        \* useNodesState: the working copy's nodes
    rfEdges,        \* useEdgesState: the working copy's edges
    viewEvent,      \* history: the GraphViz handler or effect that ran last
    \* ---- EntityDetails: renderField applied to one lineage entry (pure function)
    tipLineage,     \* data.lineage_metadata?.[fieldKey]: optional lineage entry
    tipOut,         \* <<>> before the field was rendered, <<tooltip>> after
    \* ---- ChatPanel
    isOpen,         \* the panel is shown
    messages,       \* the message log: records [role, content]
    inputValue,     \* the text in the input: sequence of characters
    chatLoading,    \* ChatPanel's loading
    chatPending,    \* chat requests in flight: the userMsg each one carries
    chatLast,       \* history: how the chat request settled last did, if any
    \* ---- the session
    route,          \* the page the browser shows: "home" (/) or "explorer" (/explorer)
    sent            \* history: the requests the last handler put on the wire

encVars == <<encEdge, encEdgeOut, encNode, encMode, encNodeOut>>
resVars == <<rawRecord, resolved>>
vars == <<encEdge, encEdgeOut, encNode, encMode, encNodeOut, rawRecord, resolved,
          modules, modulesReq, selectedModule, dictionary, sample,
          expLoading, expLoads, expUnhandled,
          entityId, nodes, edges, loading, error, graphPending, graphLast,
          data, detailsLoading, detailsError, detailPending, detailLast,
          riskMode, rfNodes, rfEdges, viewEvent, tipLineage, tipOut, route, sent,
          isOpen, messages, inputValue, chatLoading, chatPending, chatLast>>
pageVars == <<entityId, nodes, edges, loading, error, graphPending, graphLast>>
graphVars == <<nodes, edges, loading, error, graphPending, graphLast>>
detailVars == <<data, detailsLoading, detailsError, detailPending, detailLast>>
viewVars == <<riskMode, rfNodes, rfEdges, viewEvent>>
tipVars == <<tipLineage, tipOut>>
chatVars == <<isOpen, messages, inputValue, chatLoading, chatPending, chatLast>>
pureVars == <<encVars, resVars, tipVars>>
homeVars == <<pageVars, detailVars, viewVars>>
expVars == <<modules, modulesReq, selectedModule, dictionary, sample,
             expLoading, expLoads, expUnhandled>>

(***************************************************************************)
(* Bounds of the model                                                     *)
(***************************************************************************)
MaxPct == 100       \* ownership percentages 0..MaxPct
MaxScore == 100     \* risk scores 0..MaxScore
MaxSelections == 2  \* module clicks of the user in the explorer
MaxGraphInFlight == 2    \* graph requests in flight at one time
MaxDetailInFlight == 2   \* golden-record requests in flight at one time
MaxUserEdits == 2   \* user edits of the working copy since its last reset
MaxPayloadLen == 12      \* payload ids of 0..MaxPayloadLen characters
MaxConfidence == 1000    \* confidences 0..MaxConfidence thousandths (0.000 to 1.000)

(***************************************************************************)
(* JavaScript helpers                                                      *)
(***************************************************************************)
Absent == <<>>
Some(v) == <<v>>
OptOf(S) == {Absent} \cup {Some(v) : v \in S}

\* truthiness of an optional number: undefined and 0 are falsy
TruthyNum(x) == x # Absent /\ x[1] # 0
\* truthiness of an optional string: undefined and '' are falsy
TruthyStr(x) == x # Absent /\ x[1] # ""

\* a || b on optional values of one type
OrNum(a, b) == IF TruthyNum(a) THEN a ELSE b
OrStr(a, b) == IF TruthyStr(a) THEN a ELSE b

\* rendered text
PercentText(n) == [kind |-> "percent", n |-> n, s |-> ""]   \* `${n}%`
NumberText(n) == [kind |-> "number", n |-> n, s |-> ""]     \* {n}
StringText(s) == [kind |-> "string", n |-> 0, s |-> s]      \* 'text'

(***************************************************************************)
(* GraphViz: processEdges                                                  *)
(***************************************************************************)
EdgeStroke == [stroke |-> "#555"]
EdgeLabelStyle == [fill |-> "#333", fontWeight |-> 700]

\* edge.data && edge.data.ownership_percentage
OwnershipTruthy(edge) ==
    edge.data # Absent /\ TruthyNum(edge.data[1].ownership_percentage)

\* label: cond ? `${pct}%` : edge.label || ''
edgeLabel(edge) ==
    IF OwnershipTruthy(edge)
    THEN PercentText(edge.data[1].ownership_percentage[1])
    ELSE StringText(OrStr(edge.label, Some(""))[1])

processEdge(edge) ==
    [id |-> edge.id, source |-> edge.source, target |-> edge.target,
     data |-> edge.data,
     label |-> Some(edgeLabel(edge)),
     style |-> Some(EdgeStroke),
     labelStyle |-> Some(EdgeLabelStyle)]

processEdges(es) == [i \in 1..Len(es) |-> processEdge(es[i])]

(***************************************************************************)
(* GraphViz: processNodes                                                  *)
(***************************************************************************)
HighRisk == 75
MediumRisk == 50

NeutralStyle ==
    [background |-> "#fff", border |-> "1px solid #777",
     width |-> 180, padding |-> 10, borderRadius |-> 5]
RedStyle == [NeutralStyle EXCEPT !.background = "#fee2e2", !.border = "2px solid #ef4444"]
YellowStyle == [NeutralStyle EXCEPT !.background = "#fef3c7", !.border = "2px solid #f59e0b"]
GreenStyle == [NeutralStyle EXCEPT !.background = "#dcfce7", !.border = "2px solid #22c55e"]

\* const score = (node.data?.risk_score as number) || 0
riskScoreOf(node) == OrNum(node.data.risk_score, Some(0))[1]

\* the thresholds read as inclusive lower bounds (>= instead of >)
nodeStyleInclusive(node, isRiskMode) ==
    IF ~isRiskMode THEN NeutralStyle
    ELSE IF riskScoreOf(node) >= HighRisk THEN RedStyle
    ELSE IF riskScoreOf(node) >= MediumRisk THEN YellowStyle
    ELSE GreenStyle

nodeStyle(node, isRiskMode) ==
    IF ~isRiskMode THEN NeutralStyle
    ELSE IF riskScoreOf(node) > HighRisk THEN RedStyle
    ELSE IF riskScoreOf(node) > MediumRisk THEN YellowStyle
    ELSE GreenStyle

\* Risk Score: {node.data.risk_score || 'N/A'}
riskLine(node) ==
    IF TruthyNum(node.data.risk_score)
    THEN NumberText(node.data.risk_score[1])
    ELSE StringText("N/A")

\* String(node.data.name || node.id), then {isRiskMode && <div>...</div>}
nodeLabel(node, isRiskMode) ==
    [name |-> OrStr(node.data.name, Some(node.id))[1],
     risk |-> IF isRiskMode THEN Some(riskLine(node)) ELSE Absent]

processNode(node, isRiskMode) ==
    [id |-> node.id, type |-> node.type, position |-> node.position,
     style |-> nodeStyle(node, isRiskMode),
     data |-> [name |-> node.data.name, risk_score |-> node.data.risk_score,
               label |-> nodeLabel(node, isRiskMode)]]

processNodes(ns, isRiskMode) ==
    [i \in 1..Len(ns) |-> processNode(ns[i], isRiskMode)]

(***************************************************************************)
(* Explorer: normalizedDict, the dictionary row resolver                   *)
(***************************************************************************)
CanonicalFields == {"fieldName", "description", "dnbCode", "type", "length"}

\* the alias keys each canonical field reads, in the order of the || chain
AliasesOf(field) ==
    CASE field = "fieldName" -> <<"Field Name", "Element Name", "Name">>
      [] field = "description" -> <<"Description", "Definition">>
      [] field = "dnbCode" -> <<"D&B Code", "Dnb Code">>
      [] field = "type" -> <<"Data Type", "Type">>
      [] field = "length" -> <<"Length">>

\* every field falls back to the empty string
DefaultAllEmpty(field) == ""

\* the literal that ends each || chain
DefaultOf(field) == IF field = "fieldName" THEN "Unknown" ELSE ""

RECURSIVE ChainByPresence(_, _, _)
\* the chain read as "first key present" (?? instead of ||)
ChainByPresence(item, keys, dflt) ==
    IF keys = <<>> THEN dflt
    ELSE IF item[Head(keys)] # Absent THEN item[Head(keys)][1]
    ELSE ChainByPresence(item, Tail(keys), dflt)

RECURSIVE ChainOr(_, _, _)
\* item[k1] || item[k2] || ... || dflt
ChainOr(item, keys, dflt) ==
    IF keys = <<>> THEN dflt
    ELSE IF TruthyStr(item[Head(keys)]) THEN item[Head(keys)][1]
    ELSE ChainOr(item, Tail(keys), dflt)

\* the object literal built for one row of dictData
normalizeRow(item) ==
    [field \in CanonicalFields |-> ChainOr(item, AliasesOf(field), DefaultOf(field))]

(***************************************************************************)
(* Inputs of the pure functions                                            *)
(***************************************************************************)
AliasKeys == UNION {{AliasesOf(f)[i] : i \in 1..Len(AliasesOf(f))} : f \in CanonicalFields}

\* a row holds, per alias key, nothing, the empty string or a value that
\* names the key it came from
RawRecords ==
    {[k \in AliasKeys |-> CASE c[k] = 0 -> Absent [] c[k] = 1 -> Some("") [] c[k] = 2 -> Some(k)] :
        c \in [AliasKeys -> 0..2]}

EncEdgeData ==
    {Absent} \cup {Some([ownership_percentage |-> p]) : p \in OptOf(0..MaxPct)}
EncEdges ==
    [id : {<<"e">>}, source : {"1"}, target : {"2"},
     data : EncEdgeData, label : OptOf({"", "PARTNER"})]
EncNodes ==
    [id : {"n1"}, type : {Absent}, position : {[x |-> 0, y |-> 0]},
     data : [name : OptOf({"", "Acme"}), risk_score : OptOf(0..MaxScore),
             label : {Absent}]]

IdleEdge == [id |-> <<"e">>, source |-> "1", target |-> "2", data |-> Absent, label |-> Absent]
IdleNode == [id |-> "n1", type |-> Absent, position |-> [x |-> 0, y |-> 0],
             data |-> [name |-> Absent, risk_score |-> Absent, label |-> Absent]]

EncIdle ==
    /\ encEdge = IdleEdge /\ encEdgeOut = Absent
    /\ encNode = IdleNode /\ encMode = FALSE /\ encNodeOut = Absent
ResIdle == rawRecord = [k \in AliasKeys |-> Absent] /\ resolved = Absent
TipIdle == tipLineage = Absent /\ tipOut = Absent

\* useState<Message[]>([{ role: 'assistant', content: "Hello! ..." }])
Greeting ==
    [role |-> "assistant",
     content |-> Some("Hello! I am the Entity Nexus Agent. I can help you find entities and explain their lineage.")]
\* ChatPanel after its first render
ChatIdle ==
    /\ isOpen = FALSE
    /\ messages = <<Greeting>>
    /\ inputValue = <<>>
    /\ chatLoading = FALSE
    /\ chatPending = <<>>
    /\ chatLast = Absent
\* ExplorerPage after its first render: the module-list request is out
ExpIdle ==
    /\ modules = <<>> /\ modulesReq = "pending" /\ selectedModule = Absent
    /\ dictionary = <<>> /\ sample = Absent /\ expLoading = FALSE
    /\ expLoads = <<>> /\ expUnhandled = FALSE

(***************************************************************************)
(* Home page: what the graph and golden-record endpoints may answer        *)
(***************************************************************************)
DefaultId == "804735132"
EntityIds == {DefaultId, "B", ""}

Pos(x, y) == [x |-> x, y |-> y]
GraphNode(id, name, score, pos) ==
    [id |-> id, type |-> Absent, position |-> pos,
     data |-> [name |-> name, risk_score |-> score, label |-> Absent]]
GraphEdge(id, source, target, pct, label) ==
    [id |-> <<id>>, source |-> source, target |-> target,
     data |-> IF pct = Absent THEN Absent ELSE Some([ownership_percentage |-> pct]),
     label |-> label]

\* the graph the backend holds for an entity id
NodesOf(id) ==
    IF id = DefaultId
    THEN <<GraphNode("n1", Some("Gorman"), Some(80), Pos(0, 0)),
           GraphNode("n2", Absent, Some(0), Pos(0, 100))>>
    ELSE IF id = "B"
    THEN <<GraphNode("b1", Some("B Corp"), Some(60), Pos(0, 0)),
           GraphNode("b2", Some("B Sub"), Absent, Pos(0, 100))>>
    ELSE <<>>
EdgesOf(id) ==
    IF id = DefaultId THEN <<GraphEdge("e1", "n1", "n2", Some(40), Absent)>>
    ELSE IF id = "B" THEN <<GraphEdge("eb", "b1", "b2", Absent, Some("PARTNER"))>>
    ELSE <<>>

\* what a graph request can end with: a decoded object (with or without its
\* nodes/edges keys), a decoded null, a non-OK status, a network error or an
\* undecodable body
GraphOutcome(kind, ns, es) == [kind |-> kind, nodes |-> ns, edges |-> es]
GraphOutcomes(id) ==
    {GraphOutcome("ok", Some(NodesOf(id)), Some(EdgesOf(id))),
     GraphOutcome("ok", Absent, Absent),
     GraphOutcome("ok", Some(NodesOf(id)), Absent)}
    \cup {GraphOutcome(k, Absent, Absent) :
            k \in {"nullBody", "httpError", "networkError", "undecodable"}}

\* fetchEntityGraph throws on !response.ok, fetch and response.json() reject,
\* and data.nodes throws on a null body: all of them end in the catch block
GraphFails(outcome) == outcome.kind # "ok"

\* interface LineageInfo: a string is kept as the sequence of its characters
\* where the code cuts it (payload_id), a confidence of 0.87 is kept as 870
\* thousandths
LineageInfo(source, payload_id, confidence, file_name, json_path) ==
    [source |-> source, payload_id |-> payload_id, confidence |-> confidence,
     file_name |-> file_name, json_path |-> json_path]
PayloadChars == <<"3", "f", "a", "9", "c", "2", "7", "e", "1", "b", "0", "d", "4", "6">>
PayloadId(n) == SubSeq(PayloadChars, 1, n)

AttributeKeys == {"name", "legal_name", "jurisdiction_code", "revenue_usd", "employee_count"}
\* the lineage the backend holds for an entity id: Record<string, LineageInfo>
LineageOf(id) ==
    IF id = DefaultId
    THEN [k \in AttributeKeys |->
            CASE k = "name" -> Some(LineageInfo("DNB", PayloadId(12), 870, Some("cmpelk.json"), Some("$.name")))
              [] k = "legal_name" -> Some(LineageInfo("DNB", PayloadId(12), 950, Absent, Absent))
              [] OTHER -> Absent]
    ELSE [k \in AttributeKeys |->
            CASE k = "name" -> Some(LineageInfo("ERP", PayloadId(10), 600, Absent, Some("$.org.name")))
              [] k = "revenue_usd" -> Some(LineageInfo("ERP", PayloadId(10), 400, Absent, Absent))
              [] OTHER -> Absent]
GoldenRecordOf(id) ==
    [name |-> IF id = DefaultId THEN "Gorman Mfg" ELSE "B Corp",
     legal_name |-> IF id = DefaultId THEN "Gorman Manufacturing Co" ELSE "B Corporation",
     revenue_usd |-> IF id = DefaultId THEN 1200000 ELSE 5000,
     employee_count |-> IF id = DefaultId THEN 125 ELSE 7,
     jurisdiction_code |-> IF id = DefaultId THEN "us_ca" ELSE "gb",
     lineage_metadata |-> LineageOf(id)]

\* the new response's values are merged into the record held: a lineage
\* entry the new response lacks keeps the entry of the response before
recordAfterFetchMerged(previous, json) ==
    IF previous = Absent THEN Some(json)
    ELSE Some([json EXCEPT !.lineage_metadata =
                 [k \in AttributeKeys |->
                    IF json.lineage_metadata[k] # Absent THEN json.lineage_metadata[k]
                    ELSE previous[1].lineage_metadata[k]]])
\* setData(json)
recordAfterFetch(previous, json) == Some(json)

DetailOutcomes == {"ok", "httpError", "networkError", "undecodable"}

(***************************************************************************)
(* EntityDetails: renderField, the lineage tooltip                         *)
(***************************************************************************)
PayloadShown == 8
Ellipsis == <<".", ".", ".">>

\* lineage.payload_id.substring(0, 8), then the literal '...'
payloadText(payload_id) ==
    SubSeq(payload_id, 1, IF Len(payload_id) < PayloadShown THEN Len(payload_id) ELSE PayloadShown)
        \o Ellipsis

\* the thousandths c for which the double c/1000 * 100 lies just below a
\* half (0.145 * 100 is 14.499999999999998), so that toFixed(0) goes down
FloatBelowHalf == {145, 285, 565, 575}

\* the percentage cut off instead of rounded
toFixed0Truncated(confidence) == confidence \div 10
\* (lineage.confidence * 100).toFixed(0): the nearest integer to the double
\* product, a half going up
toFixed0(confidence) ==
    IF confidence \in FloatBelowHalf THEN confidence \div 10 ELSE (confidence + 5) \div 10

\* {cond && <p>...</p>}: the line is rendered when the string is truthy
lineWhen(text) == IF TruthyStr(text) THEN text ELSE Absent

\* the tooltip renderField renders for data.lineage_metadata?.[fieldKey]
renderField(lineage) ==
    [tooltip |->
        IF lineage = Absent THEN Absent
        ELSE Some([source |-> lineage[1].source,
                   payload |-> payloadText(lineage[1].payload_id),
                   confidence |-> PercentText(toFixed0(lineage[1].confidence)),
                   file |-> lineWhen(lineage[1].file_name),
                   path |-> lineWhen(lineage[1].json_path)])]

OptionalNames(name) == {Absent, Some(""), Some(name)}
TipLineages ==
    {Absent}
    \cup {Some(LineageInfo("DNB", PayloadId(n), 870, file, path)) :
            n \in 0..MaxPayloadLen, file \in OptionalNames("cmpelk.json"),
            path \in OptionalNames("$.name")}
    \cup {Some(LineageInfo("ERP", PayloadId(PayloadShown), c, Absent, Absent)) :
            c \in 0..MaxConfidence}

(***************************************************************************)
(* Home page: handleSearch                                                 *)
(***************************************************************************)
FetchFailedMessage == "Failed to fetch graph data. Is the backend running?"

MockNode(id, label, pos) ==
    [id |-> id, type |-> IF id = "1" THEN Some("input") ELSE Absent, position |-> pos,
     data |-> [name |-> Absent, risk_score |-> Absent, label |-> Some(label)]]
MockNodes ==
    <<MockNode("1", "Gorman Mfg", Pos(0, 0)),
      MockNode("2", "Subsidiary A", Pos(0, 100)),
      MockNode("3", "Subsidiary B", Pos(200, 0))>>
MockEdges ==
    <<GraphEdge("e1-2", "1", "2", Absent, Some("OWNS")),
      GraphEdge("e1-3", "1", "3", Absent, Some("PARTNER"))>>

\* a failed fetch leaves the graph empty
fallbackNodesEmpty == <<>>
\* setNodes([...]) in the catch block
fallbackNodes == MockNodes
\* setEdges([...]) in the catch block
fallbackEdges == MockEdges

\* data.nodes || [] and data.edges || []
OrEmpty(list) == IF list = Absent THEN <<>> ELSE list[1]

\* setLoading(false) at the end of the try block only: a failed search
\* leaves loading as handleSearch set it
loadingAfterSearchNoFinally(failed) == failed
\* finally { setLoading(false) }
loadingAfterSearch(failed) == FALSE

\* the Analyze button can be clicked at any time
AnalyzeAlwaysEnabled == TRUE
\* disabled={loading}
AnalyzeEnabled == ~loading

(***************************************************************************)
(* GraphViz: the effect that rebuilds the working copy, and the handlers   *)
(***************************************************************************)
\* the effect keeps encoding the nodes for the mode of the first render
effectNodesStaleMode(initialNodes, mode) == processNodes(initialNodes, FALSE)
\* setNodes(processNodes(initialNodes, riskMode))
effectNodes(initialNodes, mode) == processNodes(initialNodes, mode)
\* an edge that onConnect added: its id starts with addEdge's prefix
IsUserDrawn(edge) == edge.id[1] = "xy-edge__"
HasUserDrawn(eds) == \E i \in 1..Len(eds) : IsUserDrawn(eds[i])

\* the effect keeps the edges the user drew
effectEdgesKeepDrawn(initialEdges) ==
    processEdges(initialEdges) \o SelectSeq(rfEdges, IsUserDrawn)
\* setEdges(processEdges(initialEdges))
effectEdges(initialEdges) == processEdges(initialEdges)

RangeOf(seq) == {seq[i] : i \in 1..Len(seq)}
RemoveAt(seq, i) == SubSeq(seq, 1, i - 1) \o SubSeq(seq, i + 1, Len(seq))

\* @xyflow/react addEdge(params, eds): the new edge gets the id
\* `xy-edge__${source}-${target}` and is appended unless an edge with the
\* same source and target exists
connectionExists(params, eds) ==
    \E i \in 1..Len(eds) : eds[i].source = params.source /\ eds[i].target = params.target
addEdge(params, eds) ==
    IF connectionExists(params, eds) THEN eds
    ELSE Append(eds, [id |-> <<"xy-edge__", params.source, "-", params.target>>,
                      source |-> params.source, target |-> params.target,
                      data |-> Absent, label |-> Absent, style |-> Absent,
                      labelStyle |-> Absent])

DragPosition == Pos(50, 50)

\* how far the working copy is from the one the effect built last
UserEdits ==
    LET baseNodes == effectNodes(nodes, riskMode)
        baseEdges == effectEdges(edges)
    IN  Cardinality({i \in 1..Len(rfNodes) : rfNodes[i] \notin RangeOf(baseNodes)})
        + Cardinality({i \in 1..Len(baseNodes) :
                         \A j \in 1..Len(rfNodes) : rfNodes[j].id # baseNodes[i].id})
        + Cardinality({i \in 1..Len(rfEdges) : rfEdges[i] \notin RangeOf(baseEdges)})
        + Cardinality({i \in 1..Len(baseEdges) : baseEdges[i] \notin RangeOf(rfEdges)})

HomeIdle ==
    /\ entityId = DefaultId /\ nodes = <<>> /\ edges = <<>>
    /\ loading = FALSE /\ error = "" /\ graphPending = <<>>
    /\ graphLast = [id |-> Absent, prev |-> Absent, outcome |-> Absent]
    \* EntityDetails' effect has run for the default id
    /\ data = Absent /\ detailsLoading = TRUE /\ detailsError = ""
    /\ detailPending = <<DefaultId>>
    /\ detailLast = [id |-> DefaultId, status |-> "pending"]
    \* GraphViz' effect has run on the empty snapshot
    /\ riskMode = FALSE /\ rfNodes = <<>> /\ rfEdges = <<>>
    /\ viewEvent = "mount"

\* onClick={handleSearch}: setLoading(true); setError(''); the request leaves
ClickAnalyze ==
    /\ AnalyzeEnabled
    /\ Len(graphPending) < MaxGraphInFlight
    /\ loading' = TRUE
    /\ error' = ""
    /\ graphPending' = Append(graphPending, entityId)
    /\ graphLast' = [id |-> Some(entityId), prev |-> graphLast.id, outcome |-> Absent]
    /\ sent' = <<"graph">>
    /\ UNCHANGED <<entityId, nodes, edges, detailVars, viewVars, pureVars, chatVars, route, expVars>>

\* the answer as the page sees it: every failure ends in the same catch block
Seen(outcome) == IF GraphFails(outcome) THEN GraphOutcome("failed", Absent, Absent) ELSE outcome

\* the catch block sends the request again instead of giving up
GraphResponseRetrying(i, outcome) ==
    /\ i \in 1..Len(graphPending)
    /\ IF GraphFails(outcome)
       THEN /\ graphPending' = Append(RemoveAt(graphPending, i), graphPending[i])
            /\ sent' = <<"graph">>
            /\ UNCHANGED <<graphLast, error, nodes, edges, loading, rfNodes, rfEdges, viewEvent>>
       ELSE /\ graphPending' = RemoveAt(graphPending, i)
            /\ graphLast' = IF i = Len(graphPending) /\ graphLast.outcome = Absent
                            THEN [graphLast EXCEPT !.outcome = Some(Seen(outcome))]
                            ELSE graphLast
            /\ nodes' = OrEmpty(outcome.nodes)
            /\ edges' = OrEmpty(outcome.edges)
            /\ loading' = FALSE
            /\ rfNodes' = effectNodes(nodes', riskMode)
            /\ rfEdges' = effectEdges(edges')
            /\ viewEvent' = IF HasUserDrawn(rfEdges) THEN "snapshotOverDrawn" ELSE "snapshot"
            /\ sent' = <<>>
            /\ UNCHANGED error
    /\ UNCHANGED <<entityId, riskMode, detailVars, pureVars, chatVars, route, expVars>>

\* the rest of handleSearch, run when the i-th request in flight is answered,
\* followed by GraphViz' effect on the new initialNodes/initialEdges
GraphResponse(i, outcome) ==
    /\ i \in 1..Len(graphPending)
    /\ graphPending' = RemoveAt(graphPending, i)
    /\ graphLast' = IF i = Len(graphPending) /\ graphLast.outcome = Absent
                    THEN [graphLast EXCEPT !.outcome = Some(Seen(outcome))]
                    ELSE graphLast
    /\ IF GraphFails(outcome)
       THEN /\ error' = FetchFailedMessage
            /\ nodes' = fallbackNodes
            /\ edges' = fallbackEdges
       ELSE /\ nodes' = OrEmpty(outcome.nodes)
            /\ edges' = OrEmpty(outcome.edges)
            /\ UNCHANGED error
    /\ loading' = loadingAfterSearch(GraphFails(outcome))
    /\ rfNodes' = effectNodes(nodes', riskMode)
    /\ rfEdges' = effectEdges(edges')
    /\ viewEvent' = IF HasUserDrawn(rfEdges) THEN "snapshotOverDrawn" ELSE "snapshot"
    /\ sent' = <<>>
    /\ UNCHANGED <<entityId, riskMode, detailVars, pureVars, chatVars, route, expVars>>

\* onChange={(e) => setEntityId(e.target.value)}, followed by EntityDetails'
\* effect on the new entityId: if (!entityId) return; fetchData()
SetEntityId(v) ==
    /\ v # entityId
    /\ entityId' = v
    /\ IF v = ""
       THEN UNCHANGED detailVars
       ELSE /\ Len(detailPending) < MaxDetailInFlight
            /\ detailsLoading' = TRUE
            /\ detailsError' = ""
            /\ detailPending' = Append(detailPending, v)
            /\ detailLast' = [id |-> v, status |-> "pending"]
            /\ UNCHANGED data
    /\ sent' = IF v = "" THEN <<>> ELSE <<"record">>
    /\ UNCHANGED <<graphVars, viewVars, pureVars, chatVars, route, expVars>>

\* the panel and the page share one graph state: a failed golden-record
\* fetch also empties the graph
DetailsResponseSharedGraph(i, outcome) ==
    /\ i \in 1..Len(detailPending)
    /\ detailPending' = RemoveAt(detailPending, i)
    /\ detailLast' = IF i = Len(detailPending) /\ detailLast.status = "pending"
                     THEN [detailLast EXCEPT !.status = IF outcome = "ok" THEN "ok" ELSE "failed"]
                     ELSE detailLast
    /\ IF outcome = "ok"
       THEN data' = Some(GoldenRecordOf(detailPending[i])) /\ UNCHANGED <<detailsError, nodes, edges>>
       ELSE detailsError' = "Could not load entity details." /\ nodes' = <<>> /\ edges' = <<>>
            /\ UNCHANGED data
    /\ detailsLoading' = FALSE
    /\ sent' = <<>>
    /\ UNCHANGED <<entityId, loading, error, graphPending, graphLast, viewVars, pureVars, chatVars, route, expVars>>

\* the rest of fetchData, run when the i-th request in flight is answered
DetailsResponse(i, outcome) ==
    /\ i \in 1..Len(detailPending)
    /\ detailPending' = RemoveAt(detailPending, i)
    /\ detailLast' = IF i = Len(detailPending) /\ detailLast.status = "pending"
                     THEN [detailLast EXCEPT !.status = IF outcome = "ok" THEN "ok" ELSE "failed"]
                     ELSE detailLast
    /\ IF outcome = "ok"
       THEN /\ data' = recordAfterFetch(data, GoldenRecordOf(detailPending[i]))
            /\ UNCHANGED detailsError
       ELSE detailsError' = "Could not load entity details." /\ UNCHANGED data
    /\ detailsLoading' = FALSE
    /\ sent' = <<>>
    /\ UNCHANGED <<pageVars, viewVars, pureVars, chatVars, route, expVars>>

\* the handler flips the mode whatever the event carries
nextRiskModeFlipped(mode, checked) == ~mode
\* setRiskMode(e.target.checked)
nextRiskMode(mode, checked) == checked

\* onChange={(e) => setRiskMode(e.target.checked)}: the mode becomes what the
\* event carries. When that differs from the mode set, the component renders
\* again and the effect rebuilds nodes and edges; when it is the mode already
\* set, useState keeps the state, no dependency of the effect has changed and
\* the effect does not run
SetRiskMode(checked) ==
    /\ riskMode' = nextRiskMode(riskMode, checked)
    /\ IF riskMode' # riskMode
       THEN /\ rfNodes' = effectNodes(nodes, riskMode')
            /\ rfEdges' = effectEdges(edges)
       ELSE UNCHANGED <<rfNodes, rfEdges>>
    /\ viewEvent' = IF checked = riskMode THEN "setSameMode"
                     ELSE IF HasUserDrawn(rfEdges) THEN "setOtherModeOverDrawn"
                     ELSE "setOtherMode"
    /\ sent' = <<>>
    /\ UNCHANGED <<pageVars, detailVars, pureVars, chatVars, route, expVars>>

\* onConnect: setEdges((eds) => addEdge(params, eds))
Connect(source, target) ==
    /\ UserEdits < MaxUserEdits
    /\ rfEdges' = addEdge([source |-> source, target |-> target], rfEdges)
    /\ rfEdges' # rfEdges
    /\ viewEvent' = "connect"
    /\ sent' = <<>>
    /\ UNCHANGED <<riskMode, rfNodes, pageVars, detailVars, pureVars, chatVars, route, expVars>>

\* onNodesChange with a position change: node i is dragged
DragNode(i) ==
    /\ UserEdits < MaxUserEdits
    /\ i \in 1..Len(rfNodes)
    /\ rfNodes[i].position # DragPosition
    /\ rfNodes' = [rfNodes EXCEPT ![i].position = DragPosition]
    /\ viewEvent' = "nodesChange"
    /\ sent' = <<>>
    /\ UNCHANGED <<riskMode, rfEdges, pageVars, detailVars, pureVars, chatVars, route, expVars>>

\* onNodesChange with a remove change: node i is deleted
RemoveNode(i) ==
    /\ UserEdits < MaxUserEdits
    /\ i \in 1..Len(rfNodes)
    /\ rfNodes' = RemoveAt(rfNodes, i)
    /\ viewEvent' = "nodesChange"
    /\ sent' = <<>>
    /\ UNCHANGED <<riskMode, rfEdges, pageVars, detailVars, pureVars, chatVars, route, expVars>>

\* onEdgesChange with a remove change: edge i is deleted
RemoveEdge(i) ==
    /\ UserEdits < MaxUserEdits
    /\ i \in 1..Len(rfEdges)
    /\ rfEdges' = RemoveAt(rfEdges, i)
    /\ viewEvent' = "edgesChange"
    /\ sent' = <<>>
    /\ UNCHANGED <<riskMode, rfNodes, pageVars, detailVars, pureVars, chatVars, route, expVars>>

Init == HomeIdle /\ EncIdle /\ ResIdle /\ TipIdle /\ ExpIdle /\ ChatIdle /\ route = "home" /\ sent = <<>>

\* Spec: the Home page with its two fetches (search, entity id changes)
Next ==
    \/ ClickAnalyze
    \/ \E i \in 1..Len(graphPending) :
         \E outcome \in GraphOutcomes(graphPending[i]) : GraphResponse(i, outcome)
    \/ \E v \in EntityIds : SetEntityId(v)
    \/ \E i \in 1..Len(detailPending) : \E outcome \in DetailOutcomes : DetailsResponse(i, outcome)

Spec == Init /\ [][Next]_vars

\* SpecLive: Spec where every request in flight is answered in the end (by a
\* response or by the rejection of its promise)
GraphAnswered ==
    \E i \in 1..Len(graphPending) :
        \E outcome \in GraphOutcomes(graphPending[i]) : GraphResponse(i, outcome)
DetailsAnswered ==
    \E i \in 1..Len(detailPending) : \E outcome \in DetailOutcomes : DetailsResponse(i, outcome)
SpecLive == Init /\ [][Next]_vars /\ WF_vars(GraphAnswered) /\ WF_vars(DetailsAnswered)

\* SpecView: the graph view over the snapshots the searches bring
NextView ==
    \/ ClickAnalyze
    \/ \E i \in 1..Len(graphPending) :
         \E outcome \in GraphOutcomes(graphPending[i]) : GraphResponse(i, outcome)
    \/ \E i \in 1..Len(detailPending) : \E outcome \in DetailOutcomes : DetailsResponse(i, outcome)
    \/ \E checked \in BOOLEAN : SetRiskMode(checked)
    \/ \E s, t \in {rfNodes[i].id : i \in 1..Len(rfNodes)} : Connect(s, t)
    \/ \E i \in 1..Len(rfNodes) : DragNode(i)
    \/ \E i \in 1..Len(rfNodes) : RemoveNode(i)
    \/ \E i \in 1..Len(rfEdges) : RemoveEdge(i)

SpecView == Init /\ [][NextView]_vars

(***************************************************************************)
(* Claims about the Home page (Spec)                                       *)
(***************************************************************************)
GraphQuiet == graphPending = <<>>
LastGraphAnswer == graphLast.outcome[1]

\* C1: once every graph search issued has been answered, the snapshot the
\* page holds (nodes, edges) is exactly what the response to the search
\* issued last carried: the nodes and edges of an earlier search are gone.
C1_GraphIsLastSearched ==
    GraphQuiet /\ graphLast.outcome # Absent /\ LastGraphAnswer.kind = "ok" =>
        /\ nodes = (IF LastGraphAnswer.nodes = Absent THEN <<>> ELSE LastGraphAnswer.nodes[1])
        /\ edges = (IF LastGraphAnswer.edges = Absent THEN <<>> ELSE LastGraphAnswer.edges[1])

\* a search for B was issued after one for the default entity, both were
\* answered, and the page holds B's graph
C1_Witness ==
    /\ GraphQuiet
    /\ graphLast.prev = Some(DefaultId) /\ graphLast.id = Some("B")
    /\ graphLast.outcome = Some(GraphOutcome("ok", Some(NodesOf("B")), Some(EdgesOf("B"))))
    /\ nodes = NodesOf("B") /\ edges = EdgesOf("B")

DetailQuiet == detailPending = <<>>

\* C2 as stated: once every golden-record fetch issued has settled, data and
\* error reflect only the fetch issued for the entity id selected now: its
\* record and no error when it succeeded, an error when it failed.
C2_RecordIsCurrentEntity ==
    DetailQuiet /\ entityId # "" =>
        /\ detailLast.status = "ok" =>
              data = Some(GoldenRecordOf(entityId)) /\ detailsError = ""
        /\ detailLast.status = "failed" => detailsError # ""

GraphFailedLast == graphLast.outcome # Absent /\ LastGraphAnswer.kind = "failed"

\* C3 as stated: after a failed graph fetch the graph slice is the empty
\* data set (no nodes, no edges) and an error notice is set.
C3_FailureLeavesEmptyGraph ==
    GraphFailedLast => nodes = <<>> /\ edges = <<>> /\ error # ""

\* C3 amended: after a failed graph fetch the graph slice is the fixed demo
\* data set of the catch block (nodes '1', '2', '3' and edges 'e1-2' from 1
\* to 2, 'e1-3' from 1 to 3) and an error notice is set.
C3_FailureLeavesDemoGraph ==
    GraphFailedLast =>
        /\ [i \in 1..Len(nodes) |-> nodes[i].id] = <<"1", "2", "3">>
        /\ [i \in 1..Len(edges) |-> <<edges[i].id, edges[i].source, edges[i].target>>]
             = << <<<<"e1-2">>, "1", "2">>, <<<<"e1-3">>, "1", "3">> >>
        /\ error # ""

\* a search has failed and the page shows the notice and the demo graph
C3_Witness ==
    /\ GraphFailedLast /\ GraphQuiet
    /\ error = "Failed to fetch graph data. Is the backend running?"
    /\ Len(nodes) = 3 /\ Len(edges) = 2

\* C13: whatever the interleaving of the two fetches, the step in which a
\* golden-record fetch completes (success or failure) leaves the graph slice
\* (nodes, edges, the search's loading and error, the view) as it was, and
\* the step in which a graph fetch completes leaves the record slice (data,
\* loading, error of the panel) and its requests in flight as they were.
C13_SliceIndependence ==
    [][/\ Len(detailPending') < Len(detailPending) =>
            UNCHANGED <<nodes, edges, loading, error, graphPending, viewVars>>
       /\ Len(graphPending') < Len(graphPending) =>
            UNCHANGED <<data, detailsLoading, detailsError, detailPending>>]_vars

\* the graph search failed while the golden-record fetch issued on mount was
\* still in flight: the graph slice holds the demo graph and its notice, the
\* record slice is still loading with no record and no error
C13_Witness ==
    /\ GraphQuiet /\ graphLast.prev = Absent /\ GraphFailedLast
    /\ nodes = MockNodes /\ error # "" /\ ~loading
    /\ detailPending = <<DefaultId>> /\ detailLast.status = "pending"
    /\ data = Absent /\ detailsLoading /\ detailsError = ""

\* C14: the record the panel holds, attribute values and lineage map
\* together, is in every state exactly one golden-record response: never
\* the values of one response with lineage entries of another.
C14_RecordFromOneResponse ==
    data # Absent =>
        \E id \in EntityIds \ {""} :
            /\ data[1].lineage_metadata = LineageOf(id)
            /\ data[1] = GoldenRecordOf(id)

\* the answer for B came first and the late answer for the default entity
\* replaced B's record whole: values and lineage are the default entity's
C14_Witness ==
    /\ DetailQuiet /\ detailLast = [id |-> "B", status |-> "ok"]
    /\ data # Absent
    /\ data[1].name = "Gorman Mfg"
    /\ data[1].lineage_metadata["legal_name"] # Absent
    /\ data[1].lineage_metadata["revenue_usd"] = Absent

C20_AtMostOneGraphFetch ==
    /\ [](Len(graphPending) <= 1 /\ (loading <=> graphPending # <<>>))
    /\ [][Len(graphPending') > Len(graphPending) =>
             ~loading /\ graphPending = <<>> /\ loading']_vars

\* a second search is in flight, issued after the first was answered
C20_Witness ==
    /\ Len(graphPending) = 1 /\ loading
    /\ graphLast.prev # Absent /\ graphLast.outcome = Absent
    /\ graphLast.id = Some("B") /\ nodes = NodesOf(DefaultId)

C11_SameModeIsNoOp ==
    [][viewEvent' = "setSameMode" =>
          riskMode' = riskMode /\ rfNodes' = rfNodes /\ rfEdges' = rfEdges]_vars

\* RiskHeatmap was set again while it was on over a fetched snapshot: the
\* high-risk node is still red and the edge still shows its percentage
C11_Witness ==
    /\ viewEvent = "setSameMode" /\ riskMode
    /\ nodes = NodesOf(DefaultId)
    /\ Len(rfNodes) = 2 /\ rfNodes[1].style.background = "#fee2e2"
    /\ Len(rfEdges) = 1 /\ rfEdges[1].label = Some(PercentText(40))

SnapshotEvents == {"snapshot", "snapshotOverDrawn"}
OtherModeEvents == {"setOtherMode", "setOtherModeOverDrawn"}
HandlerEvents == {"connect", "nodesChange", "edgesChange"}

\* C12: a user-drawn connection and a node or edge change event modify the
\* working copy only: the page's snapshot (nodes, edges), its other state
\* and the requests in flight stay as they were; and right after a new
\* snapshot replaced the old one the working copy is exactly the nodes and
\* edges derived from the new snapshot, no user-drawn edge left.
C12_OneWayViewBoundary ==
    /\ [][viewEvent' \in HandlerEvents /\ (rfNodes' # rfNodes \/ rfEdges' # rfEdges) =>
             UNCHANGED <<pageVars, detailVars, riskMode, expVars>>]_vars
    /\ [](viewEvent \in SnapshotEvents =>
             /\ rfNodes = processNodes(nodes, riskMode)
             /\ rfEdges = processEdges(edges)
             /\ ~HasUserDrawn(rfEdges))

\* a snapshot has replaced the one over which the user had drawn an edge,
\* and the working copy is the new snapshot's derived graph
C12_Witness ==
    /\ viewEvent = "snapshotOverDrawn"
    /\ nodes = NodesOf(DefaultId)
    /\ Len(rfNodes) = 2 /\ Len(rfEdges) = 1 /\ rfEdges[1].id = <<"e1">>

NodeIds(ns) == {ns[i].id : i \in 1..Len(ns)}
EdgeIds(es) == {es[i].id : i \in 1..Len(es)}
\* the ids of the snapshot's nodes and edges that the working copy holds
WorkingSnapshotNodeIds == NodeIds(rfNodes) \cap NodeIds(nodes)
WorkingSnapshotEdgeIds == EdgeIds(rfEdges) \cap EdgeIds(edges)

ModeChangeResets ==
    /\ nodes' = nodes /\ edges' = edges
    /\ rfNodes' = processNodes(nodes, riskMode')
    /\ rfEdges' = processEdges(edges)
    /\ ~HasUserDrawn(rfEdges')

\* C21 as stated: a step that changes the display mode leaves the working
\* copy equal to the nodes and edges derived from the current snapshot, no
\* user-drawn edge left, and the snapshot node ids and edge ids the working
\* copy holds are the same before and after the step.
C21_ModeChangeKeepsIds ==
    [][riskMode' # riskMode =>
          /\ ModeChangeResets
          /\ WorkingSnapshotNodeIds' = WorkingSnapshotNodeIds
          /\ WorkingSnapshotEdgeIds' = WorkingSnapshotEdgeIds]_vars

\* C21: a step that changes the display mode leaves the working copy equal
\* to the nodes and edges derived from the current snapshot, no user-drawn
\* edge left; after the step the working copy holds the id of every node
\* and edge of the snapshot, those the user had deleted included.
C21_ModeChangeResetsWorkingCopy ==
    [][riskMode' # riskMode =>
          /\ ModeChangeResets
          /\ WorkingSnapshotNodeIds' = NodeIds(nodes)
          /\ WorkingSnapshotEdgeIds' = EdgeIds(edges)]_vars

\* RiskHeatmap was switched on over a fetched snapshot on which the user
\* had drawn an edge: the working copy is the snapshot's derived graph in
\* the risk encoding, with the snapshot's one edge only
C21_Witness ==
    /\ viewEvent = "setOtherModeOverDrawn" /\ riskMode
    /\ nodes = NodesOf(DefaultId)
    /\ Len(rfNodes) = 2 /\ rfNodes[1].style = RedStyle
    /\ Len(rfEdges) = 1 /\ rfEdges[1].id = <<"e1">>

\* C19: the display mode starts as Normal; it changes only in a step of the
\* checkbox handler that sets the other mode, a step that touches neither
\* the page nor the panel; a snapshot replacement, a failed search, a drawn
\* connection and a node or edge change leave it as it is; and a snapshot
\* that arrives while RiskHeatmap is on is shown with the risk encoding.
C19_ModeChangesOnlyByToggle ==
    /\ riskMode = FALSE
    /\ [][riskMode' # riskMode =>
             viewEvent' \in OtherModeEvents /\ UNCHANGED <<pageVars, detailVars>>]_vars
    /\ [][Len(graphPending') < Len(graphPending) => riskMode' = riskMode]_vars
    /\ [][viewEvent' \in HandlerEvents /\ (rfNodes' # rfNodes \/ rfEdges' # rfEdges) =>
             riskMode' = riskMode]_vars
    /\ [](viewEvent \in SnapshotEvents /\ riskMode =>
             rfNodes = processNodes(nodes, TRUE) /\ rfEdges = processEdges(edges))

\* a search was answered while RiskHeatmap was on: the mode is still on and
\* the new snapshot's nodes carry the risk colours and the score line
C19_Witness ==
    /\ viewEvent \in SnapshotEvents /\ riskMode
    /\ nodes = NodesOf(DefaultId)
    /\ Len(rfNodes) = 2
    /\ rfNodes[1].style = RedStyle /\ rfNodes[2].style = GreenStyle
    /\ rfNodes[1].data.label.risk = Some(NumberText(80))

(***************************************************************************)
(* ExplorerPage: what the reference endpoints may answer                   *)
(***************************************************************************)
ModuleIds == {"m1", "m2"}
ModuleList == <<"m1", "m2">>

EmptyRow == [k \in AliasKeys |-> Absent]
RowOf(m) ==
    IF m = "m1"
    THEN [EmptyRow EXCEPT !["Field Name"] = Some("X"), !["Data Type"] = Some("T")]
    ELSE [EmptyRow EXCEPT !["Element Name"] = Some("Y"), !["Description"] = Some("")]

ObjectRow(fields) == [kind |-> "object", fields |-> fields]
NullRow == [kind |-> "null", fields |-> EmptyRow]
ScalarRow == [kind |-> "scalar", fields |-> EmptyRow]

\* a decoded JSON body of the dictionary endpoint
ListBody(rows) == [kind |-> "list", rows |-> rows]
ObjectBody == [kind |-> "object", rows |-> <<>>]      \* e.g. {"detail": "Not Found"}

DictBodies(m) ==
    {ListBody(<<>>), ListBody(<<ObjectRow(RowOf(m))>>),
     ListBody(<<ObjectRow(RowOf(m)), NullRow>>), ListBody(<<ScalarRow>>),
     ObjectBody}

\* res.json() of the dictionary request, after .catch(() => []): a transport
\* failure and an undecodable body both become the empty list
DictOutcomes(m) == [kind : {"transportFailure", "undecodable"}] \cup DictBodies(m)
fetchDict(outcome) ==
    IF outcome.kind \in {"transportFailure", "undecodable"} THEN ListBody(<<>>) ELSE outcome

\* res.json() of the sample request, after .catch(() => null)
SampleOf(m) == Some([of |-> m])
SampleOutcomes(m) == {"transportFailure", "undecodable", "document"}
fetchSample(m, outcome) == IF outcome = "document" THEN SampleOf(m) ELSE Absent

\* item['...'] throws a TypeError when item is null; a number or a string
\* answers undefined for every key
RowThrows(item) == item.kind = "null"
FieldsOf(item) == IF item.kind = "object" THEN item.fields ELSE EmptyRow

\* dictData.map(...) throws when dictData is no array or holds a null row
normalizeThrows(dictData) ==
    \/ dictData.kind # "list"
    \/ \E i \in 1..Len(dictData.rows) : RowThrows(dictData.rows[i])

normalizedDict(dictData) ==
    [i \in 1..Len(dictData.rows) |-> normalizeRow(FieldsOf(dictData.rows[i]))]

(***************************************************************************)
(* ExplorerPage: effects and handlers                                      *)
(***************************************************************************)
\* useEffect([selectedModule]): setLoading(true) and the two requests
IssueLoad(m) == Append(expLoads, [mod |-> m, dict |-> Absent, sample |-> Absent])

\* useEffect([]) .then: setModules(data); if (data.length > 0) setSelectedModule(data[0])
ModulesLoaded(list) ==
    /\ modulesReq = "pending"
    /\ modulesReq' = "done"
    /\ modules' = list
    /\ IF Len(list) > 0
       THEN /\ selectedModule' = Some(list[1])
            /\ expLoading' = TRUE
            /\ expLoads' = IssueLoad(list[1])
       ELSE UNCHANGED <<selectedModule, expLoading, expLoads>>
    /\ sent' = IF Len(list) > 0 THEN <<"dictionary", "sample">> ELSE <<>>
    /\ UNCHANGED <<dictionary, sample, expUnhandled, pureVars, chatVars, route, homeVars>>

\* useEffect([]) .catch: console.error
ModulesFailed ==
    /\ modulesReq = "pending"
    /\ modulesReq' = "failed"
    /\ sent' = <<>>
    /\ UNCHANGED <<modules, selectedModule, dictionary, sample, expLoading,
                   expLoads, expUnhandled, pureVars, chatVars, route, homeVars>>

\* onClick={() => setSelectedModule(mod)} and the effect it triggers; a click
\* on the module already selected changes no state and runs no effect
SelectModule(i) ==
    /\ i \in 1..Len(modules)
    /\ selectedModule # Some(modules[i])
    /\ Len(expLoads) <= MaxSelections
    /\ selectedModule' = Some(modules[i])
    /\ expLoading' = TRUE
    /\ expLoads' = IssueLoad(modules[i])
    /\ sent' = <<"dictionary", "sample">>
    /\ UNCHANGED <<modules, modulesReq, dictionary, sample, expUnhandled,
                   pureVars, chatVars, route, homeVars>>

\* Promise.all([...]).then(([dictData, sampleData]) => ...) for load i, run
\* once both of its requests have settled
LoadSettled(load) == load.dict # Absent /\ load.sample # Absent
AfterSettle(loads, i) ==
    IF ~LoadSettled(loads[i])
    THEN UNCHANGED <<dictionary, sample, expLoading, expUnhandled>>
    ELSE IF normalizeThrows(loads[i].dict[1])
    THEN expUnhandled' = TRUE /\ UNCHANGED <<dictionary, sample, expLoading>>
    ELSE /\ dictionary' = normalizedDict(loads[i].dict[1])
         /\ sample' = loads[i].sample[1]
         /\ expLoading' = FALSE
         /\ UNCHANGED expUnhandled

\* the dictionary request of load i settles
DictResponse(i, outcome) ==
    /\ i \in 1..Len(expLoads)
    /\ expLoads[i].dict = Absent
    /\ expLoads' = [expLoads EXCEPT ![i].dict = Some(fetchDict(outcome))]
    /\ AfterSettle(expLoads', i)
    /\ sent' = <<>>
    /\ UNCHANGED <<modules, modulesReq, selectedModule, pureVars, chatVars, route, homeVars>>

\* the sample request of load i settles
SampleResponse(i, outcome) ==
    /\ i \in 1..Len(expLoads)
    /\ expLoads[i].sample = Absent
    /\ expLoads' = [expLoads EXCEPT ![i].sample = Some(fetchSample(expLoads[i].mod, outcome))]
    /\ AfterSettle(expLoads', i)
    /\ sent' = <<>>
    /\ UNCHANGED <<modules, modulesReq, selectedModule, pureVars, chatVars, route, homeVars>>

InitExplorer == ExpIdle /\ EncIdle /\ ResIdle /\ TipIdle /\ HomeIdle /\ ChatIdle /\ route = "explorer" /\ sent = <<>>

NextExplorer ==
    \/ \E list \in {<<>>, ModuleList} : ModulesLoaded(list)
    \/ ModulesFailed
    \/ \E i \in 1..Len(modules) : SelectModule(i)
    \/ \E i \in 1..Len(expLoads) :
         \E outcome \in DictOutcomes(expLoads[i].mod) : DictResponse(i, outcome)
    \/ \E i \in 1..Len(expLoads) :
         \E outcome \in SampleOutcomes(expLoads[i].mod) : SampleResponse(i, outcome)

SpecExplorer == InitExplorer /\ [][NextExplorer]_vars

\* every request of every load issued so far has settled
ExplorerQuiet == \A i \in 1..Len(expLoads) : LoadSettled(expLoads[i])

\* C4 as stated, in the form a finite run refutes: once the dictionary and
\* sample requests of every load have settled, whatever they answered, the
\* explorer has left the loading state and no error went unhandled.
C4_LoadAlwaysLeavesLoading ==
    ExplorerQuiet => ~expLoading /\ ~expUnhandled

\* C18 as stated: once every fetch issued has settled, loading is false
\* and no error escaped, the dictionary and the sample displayed are those
\* the load of the module selected now (the load issued last) returned,
\* whatever the order in which the responses arrived.
C18_DictionaryIsSelectedModule ==
    ExplorerQuiet /\ ~expLoading /\ ~expUnhandled /\ selectedModule # Absent =>
        LET current == expLoads[Len(expLoads)]
        IN  /\ current.mod = selectedModule[1]
            /\ dictionary = normalizedDict(current.dict[1])
            /\ sample = current.sample[1]

(***************************************************************************)
(* SpecSession: a session on one of the two pages                          *)
(***************************************************************************)
InitSession ==
    /\ HomeIdle /\ ExpIdle /\ EncIdle /\ ResIdle /\ TipIdle
    /\ ChatIdle /\ route \in {"home", "explorer"} /\ sent = <<>>

NextSession ==
    \/ route = "home" /\ Next
    \/ route = "explorer" /\ NextExplorer

SpecSession == InitSession /\ [][NextSession]_vars

\* C15: a step puts requests on the wire only when it is the Analyze click
\* (one graph request), a change of the entity id (one golden-record
\* request) or a module becoming selected, by the user's click or as the
\* first module of the list just loaded (one dictionary and one sample
\* request); the step in which a fetch completes, failed or not, sends
\* nothing for that resource, and a failed module list is never asked again.
C15_NoAutomaticRetry ==
    [][/\ sent' # <<>> =>
            \/ /\ sent' = <<"graph">> /\ ~loading /\ loading'
               /\ graphPending' = Append(graphPending, entityId)
            \/ /\ sent' = <<"record">> /\ entityId' # entityId
               /\ detailPending' = Append(detailPending, entityId')
            \/ /\ sent' = <<"dictionary", "sample">> /\ selectedModule' # selectedModule
               /\ Len(expLoads') = Len(expLoads) + 1
       /\ Len(graphPending') < Len(graphPending) =>
            sent' = <<>> /\ Len(graphPending') = Len(graphPending) - 1
       /\ Len(detailPending') < Len(detailPending) =>
            sent' = <<>> /\ Len(detailPending') = Len(detailPending) - 1
       /\ Len(expLoads') = Len(expLoads) /\ expLoads' # expLoads => sent' = <<>>
       /\ modulesReq = "failed" => modulesReq' = "failed" /\ sent' = <<>>
       /\ modulesReq' = "failed" => sent' = <<>>]_vars

\* the graph search and the golden-record fetch have both failed: nothing
\* was sent by the failing steps and no request is in flight
C15_Witness ==
    /\ route = "home" /\ sent = <<>>
    /\ GraphFailedLast /\ GraphQuiet /\ error # ""
    /\ DetailQuiet /\ detailLast.status = "failed" /\ detailsError # ""

(***************************************************************************)
(* SpecEncoder: processEdges / processNodes applied to every input         *)
(***************************************************************************)
ApplyProcessEdges ==
    /\ encEdgeOut = Absent
    /\ encEdgeOut' = Some(processEdges(<<encEdge>>)[1])
    /\ UNCHANGED <<encEdge, encNode, encMode, encNodeOut, resVars, tipVars, chatVars, route, sent, expVars, homeVars>>

ApplyProcessNodes ==
    /\ encNodeOut = Absent
    /\ encNodeOut' = Some(processNodes(<<encNode>>, encMode)[1])
    /\ UNCHANGED <<encEdge, encEdgeOut, encNode, encMode, resVars, tipVars, chatVars, route, sent, expVars, homeVars>>

InitEncoder ==
    /\ encEdgeOut = Absent /\ encNodeOut = Absent
    /\ \/ encEdge \in EncEdges /\ encNode = IdleNode /\ encMode = FALSE
       \/ encEdge = IdleEdge /\ encNode \in EncNodes /\ encMode \in BOOLEAN
    /\ ResIdle /\ TipIdle /\ ExpIdle /\ HomeIdle /\ ChatIdle /\ route = "home" /\ sent = <<>>

NextEncoder == ApplyProcessEdges \/ ApplyProcessNodes

SpecEncoder == InitEncoder /\ [][NextEncoder]_vars

(***************************************************************************)
(* SpecTooltip: renderField applied to every lineage entry                 *)
(***************************************************************************)
ApplyRenderField ==
    /\ tipOut = Absent
    /\ tipOut' = Some(renderField(tipLineage))
    /\ UNCHANGED <<tipLineage, encVars, resVars, chatVars, route, sent, expVars, homeVars>>

InitTooltip ==
    /\ tipLineage \in TipLineages /\ tipOut = Absent
    /\ EncIdle /\ ResIdle /\ ExpIdle /\ HomeIdle /\ ChatIdle /\ route = "home" /\ sent = <<>>

NextTooltip == ApplyRenderField

SpecTooltip == InitTooltip /\ [][NextTooltip]_vars

(***************************************************************************)
(* Claims about the lineage tooltip (SpecTooltip)                          *)
(***************************************************************************)
TipShown == tipOut[1].tooltip
FirstChars(str, n) == [i \in 1..(IF Len(str) < n THEN Len(str) ELSE n) |-> str[i]]
\* n is a whole number nearest to c thousandths taken as a percentage
NearestPercent(c, n) == 10 * n - c <= 5 /\ c - 10 * n <= 5

\* source, cut payload id and confidence of the tooltip of a lineage entry
TooltipCore(entry, tip) ==
    /\ tip.source = entry.source
    /\ tip.payload = FirstChars(entry.payload_id, 8) \o <<".", ".", ".">>
    /\ tip.confidence.kind = "percent"
    /\ NearestPercent(entry.confidence, tip.confidence.n)
    /\ entry.confidence = 870 => tip.confidence = PercentText(87)
LineRule(line, field, shown) == IF shown THEN line = field ELSE line = Absent

\* C17 as stated (tooltip content): an attribute with a lineage entry shows
\* the entry's source, the first 8 characters of its payload id followed by
\* '...', its confidence as a whole-number percentage, and a file line / a
\* path line exactly when file_name / json_path is PRESENT; an attribute
\* with no lineage entry shows no tooltip.
C17_LinesWhenPresent ==
    tipOut # Absent =>
        IF tipLineage = Absent THEN TipShown = Absent
        ELSE /\ TipShown # Absent
             /\ TooltipCore(tipLineage[1], TipShown[1])
             /\ LineRule(TipShown[1].file, tipLineage[1].file_name,
                         tipLineage[1].file_name # Absent)
             /\ LineRule(TipShown[1].path, tipLineage[1].json_path,
                         tipLineage[1].json_path # Absent)

\* C17 amended: as above, but the file line / path line is shown exactly
\* when file_name / json_path is present and not the empty string; and the
\* step that renders the tooltip changes no state of the page and sends no
\* request.
C17_LinesWhenNonEmpty ==
    /\ [](tipOut # Absent =>
            IF tipLineage = Absent THEN TipShown = Absent
            ELSE /\ TipShown # Absent
                 /\ TooltipCore(tipLineage[1], TipShown[1])
                 /\ LineRule(TipShown[1].file, tipLineage[1].file_name,
                             tipLineage[1].file_name \notin {Absent, Some("")})
                 /\ LineRule(TipShown[1].path, tipLineage[1].json_path,
                             tipLineage[1].json_path \notin {Absent, Some("")}))
    /\ [][tipOut' # tipOut => UNCHANGED <<homeVars, expVars, sent>>]_vars

\* an entry with a 12-character payload id, confidence 0.87, an empty file
\* name and a path has been rendered: 8 characters and '...', '87%', no file
\* line, the path line
C17_Witness ==
    /\ tipOut # Absent /\ tipLineage # Absent
    /\ Len(tipLineage[1].payload_id) = 12 /\ tipLineage[1].confidence = 870
    /\ tipLineage[1].file_name = Some("") /\ tipLineage[1].json_path = Some("$.name")
    /\ TipShown # Absent
    /\ Len(TipShown[1].payload) = 11
    /\ TipShown[1].confidence = PercentText(87)
    /\ TipShown[1].file = Absent /\ TipShown[1].path = Some("$.name")

(***************************************************************************)
(* SpecResolver: normalizedDict applied to every raw row                   *)
(***************************************************************************)
ApplyNormalize ==
    /\ resolved = Absent
    /\ resolved' = Some(normalizeRow(rawRecord))
    /\ UNCHANGED <<rawRecord, encVars, tipVars, chatVars, route, sent, expVars, homeVars>>

InitResolver ==
    /\ rawRecord \in RawRecords /\ resolved = Absent
    /\ EncIdle /\ TipIdle /\ ExpIdle /\ HomeIdle /\ ChatIdle /\ route = "explorer" /\ sent = <<>>

NextResolver == ApplyNormalize

SpecResolver == InitResolver /\ [][NextResolver]_vars

(***************************************************************************)
(* Claims about the dictionary row resolver (SpecResolver)                 *)
(***************************************************************************)
\* positions of the aliases of a field whose key is present in the row
PresentAt(row, field) ==
    {i \in 1..Len(AliasesOf(field)) : row[AliasesOf(field)[i]] # Absent}
\* positions of the aliases of a field whose value in the row is truthy
TruthyAt(row, field) ==
    {i \in 1..Len(AliasesOf(field)) : TruthyStr(row[AliasesOf(field)[i]])}
MinOf(S) == CHOOSE i \in S : \A j \in S : i <= j

\* C5 as stated: every canonical field resolves to the value of the first
\* alias key PRESENT in the row, an empty string counting as present and
\* winning over later aliases and over the default.
C5_FirstPresentAliasWins ==
    resolved # Absent =>
        \A f \in CanonicalFields :
            PresentAt(rawRecord, f) # {} =>
                resolved[1][f] = rawRecord[AliasesOf(f)[MinOf(PresentAt(rawRecord, f))]][1]

\* C5 amended: every canonical field resolves to the value of the first
\* alias key, in declared order, whose value is truthy (present and not the
\* empty string); a key present with an empty string is skipped like a
\* missing key, and with no truthy alias the field takes its default.
C5_FirstTruthyAliasWins ==
    resolved # Absent =>
        \A f \in CanonicalFields :
            IF TruthyAt(rawRecord, f) # {}
            THEN resolved[1][f] = rawRecord[AliasesOf(f)[MinOf(TruthyAt(rawRecord, f))]][1]
            ELSE resolved[1][f] = (IF f = "fieldName" THEN "Unknown" ELSE "")

\* a row whose first alias is present but empty and whose second alias has a
\* value: the second alias is the one resolved
C5_Witness ==
    /\ resolved # Absent
    /\ rawRecord["Field Name"] = Some("")
    /\ rawRecord["Element Name"] = Some("Element Name")
    /\ resolved[1]["fieldName"] = "Element Name"

\* C6 as stated: a canonical field none of whose aliases is present in the
\* row resolves to the empty string, for all five fields.
C6_AbsentResolvesToEmpty ==
    resolved # Absent =>
        \A f \in CanonicalFields :
            PresentAt(rawRecord, f) = {} => resolved[1][f] = ""

\* C6 amended: a canonical field none of whose aliases is present resolves
\* to 'Unknown' for fieldName and to the empty string for description,
\* dnbCode, type and length; the row with only 'Field Name' and 'Data Type'
\* resolves to those two values and '' elsewhere, and {} resolves to
\* fieldName 'Unknown' and '' elsewhere.
C6_AbsentResolvesToDefault ==
    resolved # Absent =>
        /\ \A f \in CanonicalFields :
             PresentAt(rawRecord, f) = {} =>
                resolved[1][f] = (IF f = "fieldName" THEN "Unknown" ELSE "")
        /\ (\A k \in AliasKeys : rawRecord[k] # Absent <=> k \in {"Field Name", "Data Type"})
             /\ rawRecord["Field Name"] # Some("") /\ rawRecord["Data Type"] # Some("")
           => resolved[1] = [fieldName |-> rawRecord["Field Name"][1],
                             type |-> rawRecord["Data Type"][1],
                             description |-> "", dnbCode |-> "", length |-> ""]

\* the empty row {} has been resolved
C6_Witness ==
    /\ resolved # Absent
    /\ \A k \in AliasKeys : rawRecord[k] = Absent
    /\ resolved[1]["fieldName"] = "Unknown"
    /\ resolved[1]["length"] = ""

(***************************************************************************)
(* Claims about the visual encoders (SpecEncoder)                          *)
(***************************************************************************)
OwnershipOf(edge) == IF edge.data = Absent THEN Absent ELSE edge.data[1].ownership_percentage

\* C7 as stated: the label is the ownership percentage followed by '%'
\* whenever the percentage is present (0 included), otherwise the edge's own
\* label if it has one, otherwise empty; the stroke is one fixed value.
C7_EdgeLabelRule ==
    encEdgeOut # Absent =>
        /\ encEdgeOut[1].label =
             Some(IF OwnershipOf(encEdge) # Absent
                  THEN PercentText(OwnershipOf(encEdge)[1])
                  ELSE IF encEdge.label # Absent THEN StringText(encEdge.label[1])
                  ELSE StringText(""))
        /\ encEdgeOut[1].style = Some([stroke |-> "#555"])

\* the score the claims speak of: the node's score, a missing score read as 0
ScoreOrZero(node) ==
    IF node.data.risk_score = Absent THEN 0 ELSE node.data.risk_score[1]

C9_RiskLabelMarker ==
    encNodeOut # Absent =>
        /\ encNodeOut[1].data.label.name =
             (IF TruthyStr(encNode.data.name) THEN encNode.data.name[1] ELSE encNode.id)
        /\ encNodeOut[1].data.label.risk =
             (IF ~encMode THEN Absent
              ELSE IF encNode.data.risk_score # Absent
                   THEN Some(NumberText(encNode.data.risk_score[1]))
                   ELSE Some(StringText("N/A")))

(***************************************************************************)
(* ChatPanel: the message log and its one request at a time               *)
(*                                                                         *)
(* The text of a message is a sequence of string pieces: what the user     *)
(* typed is the sequence of its characters, a fixed text is one piece.     *)
(***************************************************************************)
MaxChatInput == 2
MaxChatTurns == 2

ChatChars == {" ", "a"}
WhiteSpace == {" "}
\* what the user can have typed into the input
ChatInputs == UNION {[1..k -> ChatChars] : k \in 0..MaxChatInput}

\* String.prototype.trim: white space removed from both ends
RECURSIVE trimStart(_)
trimStart(str) ==
    IF str # <<>> /\ Head(str) \in WhiteSpace THEN trimStart(Tail(str)) ELSE str
RECURSIVE trimEnd(_)
trimEnd(str) ==
    IF str # <<>> /\ str[Len(str)] \in WhiteSpace
    THEN trimEnd(SubSeq(str, 1, Len(str) - 1))
    ELSE str
trim(str) == trimEnd(trimStart(str))

\* "Error: Please check backend logs / API Key."
ChatErrorText == <<"Error: Please check backend logs / API Key.">>
AnswerText == <<"Found 2 entities.">>

\* how a chat request can settle: a 2xx response whose JSON carries a
\* response property or none, a non-2xx response, a body that is not JSON,
\* a rejected fetch
ChatOutcomes ==
    {[kind |-> "ok", response |-> r] : r \in OptOf({AnswerText})}
      \cup {[kind |-> k, response |-> Absent] : k \in {"notOk", "badJson", "rejected"}}

UserMessage(text) == [role |-> "user", content |-> Some(text)]
\* the message the try / catch appends for an outcome
AssistantMessage(outcome) ==
    [role |-> "assistant",
     content |-> IF outcome.kind = "ok" THEN outcome.response ELSE Some(ChatErrorText)]

UserTurns == Cardinality({i \in 1..Len(messages) : messages[i].role = "user"})

\* the submit goes through whenever some text was typed, a request in
\* flight or not
submitReturnsEarlyIgnoringLoading(input, isLoading) == trim(input) = <<>>
\* if (!inputValue.trim() || loading) return
submitReturnsEarly(input, isLoading) == trim(input) = <<>> \/ isLoading

\* the round button: setIsOpen(!isOpen)
ClickLauncher ==
    /\ isOpen' = ~isOpen
    /\ UNCHANGED <<messages, inputValue, chatLoading, chatPending, chatLast>>
    /\ UNCHANGED <<pureVars, route, sent, expVars, homeVars>>

\* the X of the panel's header: setIsOpen(false)
ClickClose ==
    /\ isOpen
    /\ isOpen' = FALSE
    /\ UNCHANGED <<messages, inputValue, chatLoading, chatPending, chatLast>>
    /\ UNCHANGED <<pureVars, route, sent, expVars, homeVars>>

\* onChange={(e) => setInputValue(e.target.value)}
SetInputValue(v) ==
    /\ isOpen
    /\ v # inputValue
    /\ inputValue' = v
    /\ UNCHANGED <<isOpen, messages, chatLoading, chatPending, chatLast>>
    /\ UNCHANGED <<pureVars, route, sent, expVars, homeVars>>

\* handleSubmit up to its await: the form is submitted
handleSubmit ==
    /\ isOpen
    /\ IF submitReturnsEarly(inputValue, chatLoading)
       THEN UNCHANGED <<messages, inputValue, chatLoading, chatPending>>
       ELSE /\ UserTurns < MaxChatTurns
            /\ inputValue' = <<>>
            /\ messages' = Append(messages, UserMessage(trim(inputValue)))
            /\ chatLoading' = TRUE
            /\ chatPending' = Append(chatPending, trim(inputValue))
    /\ UNCHANGED <<isOpen, chatLast>>
    /\ UNCHANGED <<pureVars, route, sent, expVars, homeVars>>

\* the rest of handleSubmit, run when the i-th request in flight settles
handleSubmitSettled(i, outcome) ==
    /\ i \in 1..Len(chatPending)
    /\ chatPending' = RemoveAt(chatPending, i)
    /\ messages' = Append(messages, AssistantMessage(outcome))
    /\ chatLoading' = FALSE
    /\ chatLast' = Some([ok |-> outcome.kind = "ok", response |-> outcome.response])
    /\ UNCHANGED <<isOpen, inputValue>>
    /\ UNCHANGED <<pureVars, route, sent, expVars, homeVars>>

\* SpecChat: the chat panel
NextChat ==
    \/ ClickLauncher
    \/ ClickClose
    \/ \E v \in ChatInputs : SetInputValue(v)
    \/ handleSubmit
    \/ \E i \in 1..Len(chatPending) : \E outcome \in ChatOutcomes : handleSubmitSettled(i, outcome)

SpecChat == Init /\ [][NextChat]_vars

(***************************************************************************)
(* Claims about the chat panel (SpecChat)                                  *)
(***************************************************************************)
IsPrefix(a, b) == Len(a) <= Len(b) /\ SubSeq(b, 1, Len(a)) = a
LastMessage(log) == log[Len(log)]

\* C22: a request is sent only by a submit whose trimmed input is not empty
\* while no chat request is in flight, and that step appends exactly one
\* user message, the trimmed input; the step in which a request settles
\* appends exactly one assistant message (what the response carried on
\* success, the fixed error text on failure) and clears loading; every step
\* keeps the log it found as a prefix; the log starts with the greeting,
\* then user and assistant messages alternate; and at most one chat request
\* is in flight in every state.
C22_ChatPairing ==
    /\ [][Len(chatPending') > Len(chatPending) =>
             /\ trim(inputValue) # <<>> /\ chatPending = <<>> /\ ~chatLoading
             /\ messages' = Append(messages, UserMessage(trim(inputValue)))
             /\ chatPending' = <<trim(inputValue)>>]_vars
    /\ [][Len(chatPending') < Len(chatPending) =>
             /\ messages' = Append(messages,
                    [role |-> "assistant",
                     content |-> IF chatLast'[1].ok THEN chatLast'[1].response
                                 ELSE Some(ChatErrorText)])
             /\ ~chatLoading']_vars
    /\ [][Len(chatPending') = Len(chatPending) => messages' = messages]_vars
    /\ [][IsPrefix(messages, messages')]_vars
    /\ [](/\ messages[1] = Greeting
          /\ \A i \in 2..Len(messages) :
               messages[i].role = (IF i % 2 = 0 THEN "user" ELSE "assistant"))
    /\ [](Len(chatPending) <= 1)
    /\ [](chatLoading <=> chatPending # <<>>)
    /\ [](chatPending # <<>> => LastMessage(messages) = UserMessage(chatPending[1]))

\* two submits were accepted one after the other: the first was answered,
\* the second failed, and the log holds the greeting and the two pairs
C22_Witness ==
    /\ Len(messages) = 5 /\ chatPending = <<>> /\ ~chatLoading
    /\ messages[2] = UserMessage(<<"a">>)
    /\ messages[3].content = Some(AnswerText)
    /\ messages[4] = UserMessage(<<"a", "a">>)
    /\ messages[5] = [role |-> "assistant", content |-> Some(ChatErrorText)]
    /\ chatLast # Absent /\ ~chatLast[1].ok

====
